---- MODULE Spec2Model ----
(***************************************************************************)
(* Model of the metadata-scraper crawl loop (src/src/runner.py), of the    *)
(* URL helpers it uses (src/src/extractors/utils.py) and of the metadata   *)
(* extraction (src/src/extractors/metadata_parser.py).                     *)
(*                                                                         *)
(* A Python str is a sequence of one-character strings, so that            *)
(* stripping, fragment removal, parsing and glob matching are computed     *)
(* character by character as the library code computes them.  Python's     *)
(* None is the empty sequence: every place the code tests an Optional[str] *)
(* it tests its truthiness, and normalize_url never returns "".            *)
(***************************************************************************)
EXTENDS Integers, Sequences, FiniteSets, TLC

None == <<>>

(* A Python call evaluates its arguments once, before the body runs.       *)
(* CallN(F, ...) is F(...) with that order: each argument is bound to its  *)
(* value, and the body of F then works on the values.                      *)
Call1(F(_), a) == CHOOSE r \in {F(x) : x \in {a}} : TRUE
Call2(F(_, _), a, b) == CHOOSE r \in {F(x, y) : x \in {a}, y \in {b}} : TRUE
Call3(F(_, _, _), a, b, c) ==
    CHOOSE r \in {F(x, y, z) : x \in {a}, y \in {b}, z \in {c}} : TRUE
Call4(F(_, _, _, _), a, b, c, d) ==
    CHOOSE r \in {F(w, x, y, z) : w \in {a}, x \in {b}, y \in {c},
                                  z \in {d}} : TRUE

Letters == {"a", "b", "c", "d", "e", "f", "g", "h", "i", "j", "k", "l", "m",
            "n", "o", "p", "q", "r", "s", "t", "u", "v", "w", "x", "y", "z"}
Digits == {"0", "1", "2", "3", "4", "5", "6", "7", "8", "9"}

\* urllib.parse.scheme_chars
scheme_chars == Letters \cup Digits \cup {"+", "-", "."}

\* the str.strip() / urlsplit whitespace the model's alphabet holds
Whitespace == {" "}

Http == <<"h", "t", "t", "p">>
Https == <<"h", "t", "t", "p", "s">>
Ftp == <<"f", "t", "p">>

\* urllib.parse.uses_netloc, restricted to the schemes of the alphabet
uses_netloc == {Http, Https, Ftp}

----------------------------------------------------------------------------
(* str primitives *)

\* s[i:] with a 0-based Python index i
From(s, i) == SubSeq(s, i + 1, Len(s))

\* s[:i] with a 0-based Python index i
Upto(s, i) == SubSeq(s, 1, i)

\* s.find(c): the 0-based index of the first c in s, -1 when absent
RECURSIVE FindFrom(_, _, _)
FindFrom(s, c, i) ==
    IF i > Len(s) THEN -1
    ELSE IF s[i] = c THEN i - 1
    ELSE FindFrom(s, c, i + 1)

Find(s, c) == FindFrom(s, c, 1)

Contains(s, c) == Find(s, c) >= 0

\* s.startswith(p)
StartsWith(s, p) == Len(s) >= Len(p) /\ SubSeq(s, 1, Len(p)) = p

RECURSIVE lstrip(_)
lstrip(s) ==
    IF s # <<>> /\ Head(s) \in Whitespace THEN lstrip(Tail(s)) ELSE s

RECURSIVE rstrip(_)
rstrip(s) ==
    IF s # <<>> /\ s[Len(s)] \in Whitespace
    THEN Call1(rstrip, SubSeq(s, 1, Len(s) - 1))
    ELSE s

\* str.strip()
strip(s) == Call1(rstrip, lstrip(s))

----------------------------------------------------------------------------
(* urllib.parse as used by normalize_url, find_links and crawl *)

\* the index at which the netloc that starts at url[2] ends
RECURSIVE NetlocEnd(_, _)
NetlocEnd(url, i) ==
    IF i > Len(url) THEN Len(url)
    ELSE IF url[i] \in {"/", "?", "#"} THEN i - 1
    ELSE NetlocEnd(url, i + 1)

\* url.split(c, 1)[0] when i = url.find(c) is an index, else url
CutBefore(s, i) == IF i >= 0 THEN Upto(s, i) ELSE s

\* url.split(c, 1)[1] when i = url.find(c) is an index, else ''
CutAfter(s, i) == IF i >= 0 THEN From(s, i + 1) ELSE <<>>

Before(s, c) == Call2(CutBefore, s, Find(s, c))
After(s, c) == Call2(CutAfter, s, Find(s, c))

\* urlsplit: the scheme is taken when the text before the first ':', at
\* index i, is a letter followed by scheme_chars
SchemeAt(url, i) ==
    IF i > 0 /\ url[1] \in Letters /\ \A k \in 1..i : url[k] \in scheme_chars
    THEN [scheme |-> Upto(url, i), rest |-> From(url, i + 1)]
    ELSE [scheme |-> <<>>, rest |-> url]

SchemeOf(url) == Call2(SchemeAt, url, Find(url, ":"))

\* urlsplit, first half: leading whitespace dropped, then the scheme
SplitScheme(raw) == Call1(SchemeOf, lstrip(raw))

\* urlsplit: the netloc, when the rest starts with "//"
NetlocOf(rest) ==
    IF StartsWith(rest, <<"/", "/">>)
    THEN SubSeq(rest, 3, NetlocEnd(rest, 3))
    ELSE <<>>

\* urlsplit: what follows the netloc
AfterNetloc(rest) ==
    IF StartsWith(rest, <<"/", "/">>)
    THEN From(rest, NetlocEnd(rest, 3))
    ELSE rest

\* urlsplit: the query split off what precedes the fragment
SplitQuery(scheme, netloc, url, fragment) ==
    [scheme |-> scheme, netloc |-> netloc, path |-> Before(url, "?"),
     query |-> After(url, "?"), fragment |-> fragment]

\* urlsplit: the fragment split off what follows the netloc
SplitFragment(scheme, netloc, url) ==
    Call4(SplitQuery, scheme, netloc, Before(url, "#"), After(url, "#"))

\* urlsplit, second half: netloc after "//", then fragment, then query
SplitRest(a) ==
    Call3(SplitFragment, a.scheme, NetlocOf(a.rest), AfterNetloc(a.rest))

urlparse(url) == Call1(SplitRest, Call1(SplitScheme, url))

\* urlunsplit: "//" and the netloc put before the path
WithNetloc(p) ==
    IF p.netloc # <<>>
       \/ (p.scheme # <<>> /\ p.scheme \in uses_netloc
           /\ ~StartsWith(p.path, <<"/", "/">>))
    THEN <<"/", "/">> \o p.netloc
         \o (IF p.path # <<>> /\ Head(p.path) # "/" THEN <<"/">> ELSE <<>>)
         \o p.path
    ELSE p.path

\* urlunsplit: each part put back when it is not empty
WithScheme(scheme, u) == IF scheme # <<>> THEN scheme \o <<":">> \o u ELSE u
WithQuery(u, query) == IF query # <<>> THEN u \o <<"?">> \o query ELSE u
WithFragment(u, fragment) ==
    IF fragment # <<>> THEN u \o <<"#">> \o fragment ELSE u

\* urlunparse of the parts with the given fragment
urlunparse(p, fragment) ==
    Call2(WithFragment,
          Call2(WithQuery, Call2(WithScheme, p.scheme, WithNetloc(p)),
                p.query),
          fragment)

\* urldefrag(url)[0]: the URL is rebuilt from its parts only when it holds '#'
urldefrag(url) ==
    IF Contains(url, "#") THEN Call2(urlunparse, urlparse(url), <<>>)
    ELSE url

\* the end of normalize_url: a root path for a bare http(s) scheme and host
RootPath(u, parsed) ==
    IF parsed.scheme = <<>> THEN None
    ELSE IF parsed.scheme \in {Http, Https} /\ parsed.path = <<>>
         THEN parsed.scheme \o <<":", "/", "/">> \o parsed.netloc \o <<"/">>
    ELSE u

\* normalize_url from the urlparse call on
Parsed(u) == Call2(RootPath, u, urlparse(u))

normalize_url(url) ==
    IF url = <<>> THEN None
    ELSE Call1(Parsed, Call1(urldefrag, Call1(strip, url)))

----------------------------------------------------------------------------
(* glob matching *)

\* pattern.replace("**", "*"): non-overlapping, left to right
RECURSIVE ReplaceStars(_)
ReplaceStars(p) ==
    IF Len(p) >= 2 /\ p[1] = "*" /\ p[2] = "*"
    THEN <<"*">> \o Call1(ReplaceStars, From(p, 2))
    ELSE IF p = <<>> THEN <<>>
    ELSE <<Head(p)>> \o Call1(ReplaceStars, Tail(p))

\* fnmatch.fnmatch on POSIX: '*' any run of characters, '?' any one
\* character, anything else itself, the whole target matched
RECURSIVE fnmatch(_, _)
fnmatch(t, p) ==
    IF p = <<>> THEN t = <<>>
    ELSE IF Head(p) = "*"
         THEN \E k \in 0..Len(t) : Call2(fnmatch, From(t, k), Tail(p))
    ELSE IF t = <<>> THEN FALSE
    ELSE IF Head(p) = "?" THEN Call2(fnmatch, Tail(t), Tail(p))
    ELSE Head(p) = Head(t) /\ Call2(fnmatch, Tail(t), Tail(p))

match_any_glob(target, globs) ==
    \E k \in 1..Len(globs) :
        Call2(fnmatch, target, Call1(ReplaceStars, globs[k]))

\* mutant of should_ignore: nothing is ignored
should_ignore_nothing(url, ignore_globs) == FALSE

should_ignore(url, ignore_globs) == match_any_glob(url, ignore_globs)

\* mutant of classify_url: the pagination globs tested first
classify_url_pagination_first(url, scrape_globs, pagination_globs) ==
    IF match_any_glob(url, pagination_globs) THEN "pagination"
    ELSE IF match_any_glob(url, scrape_globs) THEN "detail"
    ELSE "unknown"

classify_url(url, scrape_globs, pagination_globs) ==
    IF match_any_glob(url, scrape_globs) THEN "detail"
    ELSE IF match_any_glob(url, pagination_globs) THEN "pagination"
    ELSE "unknown"

----------------------------------------------------------------------------
(* link extraction *)

\* bpath.split('/') with the last part dropped: the base path up to and
\* including its last '/'
RECURSIVE BaseDir(_)
BaseDir(bpath) ==
    IF bpath = <<>> \/ bpath[Len(bpath)] = "/" THEN bpath
    ELSE Call1(BaseDir, SubSeq(bpath, 1, Len(bpath) - 1))

\* urlparse(url, bscheme): the base's scheme when the href has none
DefaultScheme(u, bscheme) ==
    IF u.scheme = <<>> THEN [u EXCEPT !.scheme = bscheme] ELSE u

\* urljoin from the two urlparse calls on, for hrefs whose path holds no
\* '.', '..' or empty segment
Resolve(b, u, url) ==
    IF u.scheme # b.scheme \/ u.scheme \notin uses_netloc THEN url
    ELSE IF u.netloc # <<>> THEN Call2(urlunparse, u, u.fragment)
    ELSE IF u.path = <<>>
         THEN Call2(urlunparse,
                    [u EXCEPT !.netloc = b.netloc,
                              !.path = b.path,
                              !.query = IF u.query = <<>> THEN b.query
                                        ELSE u.query],
                    u.fragment)
    ELSE IF Head(u.path) = "/"
         THEN Call2(urlunparse, [u EXCEPT !.netloc = b.netloc], u.fragment)
    ELSE Call2(urlunparse,
               [u EXCEPT !.netloc = b.netloc,
                         !.path = BaseDir(b.path) \o u.path],
               u.fragment)

ResolveOn(b, u, url) == Call3(Resolve, b, DefaultScheme(u, b.scheme), url)

\* urllib.parse.urljoin
urljoin(base, url) ==
    IF base = <<>> THEN url
    ELSE IF url = <<>> THEN base
    ELSE Call3(ResolveOn, urlparse(base), urlparse(url), url)

\* the href prefixes find_links skips
SkippedPrefixes ==
    {<<"m", "a", "i", "l", "t", "o", ":">>,
     <<"t", "e", "l", ":">>,
     <<"j", "a", "v", "a", "s", "c", "r", "i", "p", "t", ":">>,
     <<"#">>}

\* list(dict.fromkeys(links)): first occurrences, in order
RECURSIVE Dedup(_, _)
Dedup(links, seen) ==
    IF links = <<>> THEN <<>>
    ELSE IF Head(links) \in seen THEN Call2(Dedup, Tail(links), seen)
    ELSE <<Head(links)>>
         \o Call2(Dedup, Tail(links), seen \cup {Head(links)})

\* links.append(n) when n is not None
Kept(n) == IF n # None THEN <<n>> ELSE <<>>

\* one pass of the loop of find_links: what the href adds to links
LinkOf(href, base_url) ==
    IF href = <<>> THEN <<>>
    ELSE IF \E p \in SkippedPrefixes : StartsWith(href, p) THEN <<>>
    ELSE Call1(Kept, Call1(normalize_url, urljoin(base_url, href)))

\* the loop of find_links over the a[href] values of the document
RECURSIVE CollectLinks(_, _)
CollectLinks(hrefs, base_url) ==
    IF hrefs = <<>> THEN <<>>
    ELSE Call2(LinkOf, Head(hrefs), base_url)
         \o Call2(CollectLinks, Tail(hrefs), base_url)

----------------------------------------------------------------------------
(* metadata extraction *)

(* An Optional[str] whose None and "" must be told apart is <<>> for None  *)
(* and <<s>> for the str s.                                                *)
NoText == <<>>
Some(s) == <<s>>
Truthy(o) == o # NoText /\ o[1] # <<>>

\* A or B
Or(a, b) == IF Truthy(a) THEN a ELSE b

\* re.sub(r"\s+", " ", text)
RECURSIVE CollapseWs(_)
CollapseWs(text) ==
    IF text = <<>> THEN <<>>
    ELSE IF Head(text) \in Whitespace
         THEN <<" ">> \o CollapseWs(lstrip(text))
    ELSE <<Head(text)>> \o CollapseWs(Tail(text))

_clean_whitespace(text) ==
    IF ~Truthy(text) THEN text
    ELSE Some(Call1(strip, CollapseWs(text[1])))

\* the content of the first meta tag found by name, else by property, for
\* the first of the names that has one; stripped, and returned even when
\* stripping leaves it empty
RECURSIVE _first_meta(_, _)
_first_meta(soup, names) ==
    IF names = <<>> THEN NoText
    ELSE LET n == Head(names)
         IN  IF soup.meta_name[n] # <<>> THEN Some(strip(soup.meta_name[n]))
             ELSE IF soup.meta_property[n] # <<>>
                  THEN Some(strip(soup.meta_property[n]))
             ELSE _first_meta(soup, Tail(names))

TitleMetaNames == <<"og:title", "twitter:title", "dc.title">>
DescriptionMetaNames ==
    <<"description", "og:description", "twitter:description">>
MetaNames ==
    {TitleMetaNames[k] : k \in 1..Len(TitleMetaNames)}
    \cup {DescriptionMetaNames[k] : k \in 1..Len(DescriptionMetaNames)}

\* paragraph texts with the empty ones dropped
RECURSIVE NonEmpty(_)
NonEmpty(paras) ==
    IF paras = <<>> THEN <<>>
    ELSE IF Head(paras) = <<>> THEN NonEmpty(Tail(paras))
    ELSE <<Head(paras)>> \o NonEmpty(Tail(paras))

\* " ".join(paras)
RECURSIVE Join(_)
Join(paras) ==
    IF paras = <<>> THEN <<>>
    ELSE IF Len(paras) = 1 THEN paras[1]
    ELSE paras[1] \o <<" ">> \o Join(Tail(paras))

ParagraphLimit == 10

\* joined if joined else None
JoinedOrNone(joined) == IF joined # <<>> THEN Some(joined) ELSE NoText

\* the last resort of the article: the first paragraphs that are not empty
FromParagraphs(paras) ==
    IF paras # <<>>
    THEN Call1(JoinedOrNone,
               Join(SubSeq(paras, 1,
                           IF Len(paras) < ParagraphLimit
                           THEN Len(paras) ELSE ParagraphLimit)))
    ELSE NoText

\* the fallbacks of the article when readability gave a1
ArticleFallback(soup, a1) ==
    IF Truthy(a1) THEN a1
    ELSE IF soup.has_container THEN soup.container_text
    ELSE Call1(FromParagraphs, NonEmpty(soup.paras))

\* the article of parse_metadata: readability, then the article-else-main
\* container, then the first paragraphs
ResolveArticle(soup) ==
    Call2(ArticleFallback, soup,
          IF soup.readability.raises THEN NoText ELSE soup.readability.text)

\* the title, given what the metadata and the title element gave
TitleOrH1(soup, t0) ==
    IF ~Truthy(t0) /\ soup.has_h1 THEN soup.h1_text ELSE t0

ResolveTitle(soup) ==
    Call2(TitleOrH1, soup,
          Call2(Or, _first_meta(soup, TitleMetaNames),
                IF Truthy(soup.title_string)
                THEN Some(strip(soup.title_string[1]))
                ELSE NoText))

ResolveHeading(soup) ==
    IF soup.has_h1 THEN soup.h1_text
    ELSE IF soup.has_h2 THEN soup.h2_text
    ELSE NoText

\* parse_metadata on the parsed document of the page
ParseSoup(soup, url) ==
    [url |-> url,
     title |-> Call1(_clean_whitespace, ResolveTitle(soup)),
     description |->
         Call1(_clean_whitespace, _first_meta(soup, DescriptionMetaNames)),
     heading |-> Call1(_clean_whitespace, ResolveHeading(soup)),
     article |-> Call1(_clean_whitespace, ResolveArticle(soup))]

----------------------------------------------------------------------------
(* The web the transport reaches: a small site on host x, a second host y. *)

HX == Http \o <<":", "/", "/", "x">>
HY == Http \o <<":", "/", "/", "y">>

\* a document with no metadata, headings, text or links
BlankSoup ==
    [hrefs |-> <<>>,
     meta_name |-> [n \in MetaNames |-> <<>>],
     meta_property |-> [n \in MetaNames |-> <<>>],
     title_string |-> NoText,
     has_h1 |-> FALSE, h1_text |-> NoText,
     has_h2 |-> FALSE, h2_text |-> NoText,
     readability |-> [raises |-> FALSE, text |-> NoText],
     has_container |-> FALSE, container_text |-> NoText,
     paras |-> <<>>]

\* the response bodies, by name, as the HTML parser reads them
Documents ==
    [home |->
        [BlankSoup EXCEPT
            !.title_string = Some(<<" ", "H", " ">>),
            !.hrefs = << <<"#", "t">>,
                         <<"/", "p", "/", "1">>,
                         HX \o <<"/", "a", "/", "1">>,
                         HX \o <<"/", "a", "/", "1", "#", "f">>,
                         HY \o <<"/", "z">>,
                         HY \o <<"/", "a", "/", "3">>,
                         <<"/", "i", "/", "s">>,
                         <<"/", "u">>,
                         <<"m", "a", "i", "l", "t", "o", ":", "m">> >>],
     p1 |->
        [BlankSoup EXCEPT
            !.has_h2 = TRUE, !.h2_text = Some(<<"P">>),
            !.hrefs = << HX \o <<"/", "a", "/", "2">>,
                         HX \o <<"/", "a", "/", "2", " ", "#", "f">>,
                         HX,
                         <<"/", "p", "/", "1">>,
                         <<"/", "i", "/", "a", "/", "4">> >>],
     a1 |->
        [BlankSoup EXCEPT
            !.meta_property = [@ EXCEPT !["og:title"] = <<"A", " ", " ", "1">>],
            !.has_h1 = TRUE, !.h1_text = Some(<<"A">>),
            !.readability = [raises |-> TRUE, text |-> NoText],
            !.has_container = TRUE, !.container_text = Some(<<"B">>),
            !.hrefs = << <<"/", "a", "/", "9">>, <<"8">> >>],
     a2 |->
        [BlankSoup EXCEPT
            !.meta_name = [@ EXCEPT !["description"] = <<"D">>],
            !.readability = [raises |-> FALSE, text |-> Some(<<"C">>)]],
     u |->
        [BlankSoup EXCEPT
            !.paras = << <<>>, <<"Q">>, <<"R">> >>,
            !.hrefs = << Https \o <<":", "/", "/", "x", "/", "v">>,
                         HX \o <<":", "8", "0", "/", "w">>,
                         <<"/", "r">> >>],
     s |->
        [BlankSoup EXCEPT
            !.title_string = Some(<<"S">>),
            !.hrefs = << <<"/", "i", "/", "s">>, <<"t">> >>],
     z |->
        [BlankSoup EXCEPT
            !.has_h1 = TRUE, !.h1_text = Some(<<"Z">>),
            !.hrefs = << <<"k">>, HX \o <<"/", "u">> >>],
     blank |-> BlankSoup]

\* BeautifulSoup(html, "lxml")
BeautifulSoup(html) == Documents[html]

\* what the server answers for a requested URL: the body and the URL the
\* redirects ended at
Web ==
    LET page(req, html, final) == [url |-> req, html |-> html, final_url |-> final]
    IN  { page(HX \o <<"/">>, "home", HX \o <<"/">>),
          page(HX \o <<"/", "p", "/", "1">>, "p1", HX \o <<"/", "p", "/", "1">>),
          page(HX \o <<"/", "a", "/", "1">>, "a1", HX \o <<"/", "a", "/", "1">>),
          page(HX \o <<"/", "a", "/", "2">>, "a2", HX \o <<"/", "a", "/", "2">>),
          page(HX \o <<"/", "u">>, "u", HX \o <<"/", "u">>),
          page(HX \o <<"/", "r">>, "a1", HX \o <<"/", "a", "/", "1">>),
          page(HX \o <<"/", "i", "/", "s">>, "s", HX \o <<"/", "i", "/", "s">>),
          page(HX \o <<"/", "g">>, "s", HX \o <<"/", "i", "/", "s">>),
          page(HY \o <<"/", "z">>, "z", HY \o <<"/", "z">>),
          page(HX \o <<"/", "h">>, "z", HY \o <<"/", "z">>) }

Served(url) ==
    IF \E w \in Web : w.url = url
    THEN CHOOSE w \in Web : w.url = url
    ELSE [url |-> url, html |-> "blank", final_url |-> url]

\* the status codes the server answers with
Statuses == {200, 404, 999}

\* what can happen to one request: the connection fails or times out, or a
\* response arrives with a status and a body that may be empty
Network ==
    {[failed |-> TRUE, status |-> 200, empty |-> FALSE]}
    \cup [failed : {FALSE}, status : Statuses, empty : BOOLEAN]

\* fetch_html: raises on a transport failure and, through raise_for_status,
\* on a 4xx or 5xx status; otherwise returns (html, final_url, status)
fetch_html(url, net) ==
    IF net.failed \/ (400 <= net.status /\ net.status < 600)
    THEN [raised |-> TRUE, html |-> "", final_url |-> <<>>, status |-> 0]
    ELSE [raised |-> FALSE,
          html |-> IF net.empty THEN "" ELSE Served(url).html,
          final_url |-> Served(url).final_url,
          status |-> net.status]

\* find_links(html, base_url)
find_links(html, base_url) ==
    Call2(Dedup, CollectLinks(BeautifulSoup(html).hrefs, base_url), {})

parse_metadata(html, url) == Call2(ParseSoup, BeautifulSoup(html), url)

----------------------------------------------------------------------------
(* crawl *)

\* the largest max_requests_per_crawl of the configurations explored
MaxRequests == 3

SeedLists ==
    { << HX >>,
      << <<" ">> \o HX \o <<"/", "p", "/", "1", " ">>,
         <<"x", "/", "a">>,
         HX \o <<"/", "i", "/", "s">>,
         HX \o <<"/", "p", "/", "1", "#", "f">> >>,
      << HX \o <<"/", "r">>,
         HX \o <<"/", "i", "/", "a", "/", "4">>,
         <<>>,
         HX \o <<"/", "a", "/", "1">> >>,
      << HX \o <<"/", "g">>,
         HX \o <<"/", "h">> >> }

ScrapeGlobLists == { <<>>, << <<"*", "*", "/", "a", "/", "*">> >> }
PaginationGlobLists == { <<>>, << <<"*", "/", "p", "/", "*">> >> }
IgnoreGlobLists == { <<>>, << <<"*", "/", "i", "/", "*">> >> }

\* the configurations load_input can produce, from the lists above
CrawlConfig ==
    [start_urls : SeedLists,
     scrape_url_globs : ScrapeGlobLists,
     pagination_url_globs : PaginationGlobLists,
     ignore_url_globs : IgnoreGlobLists,
     max_requests_per_crawl : 1..MaxRequests]

VARIABLES
    cfg,            \* the CrawlConfig of the run
    to_visit,       \* the frontier: a queue of (url, referrer)
    visited,        \* the URLs dequeued so far
    results,        \* the records appended so far
    num_requests,   \* the budget counter
    pc,             \* where crawl is: seed, loop, fetch, page, done, raised;
                    \* where a helper called on its own is: call, again,
                    \* return
    url,            \* the entry being processed; the final URL once fetched
    referrer,       \* the referrer of the entry being processed
    html,           \* the body of the usable response being processed
    fetched,        \* log: the URLs handed to fetch_html, in order
    parsed,         \* log: the URLs handed to parse_metadata, in order
    scanned,        \* log: the URLs handed to find_links, in order
    faults,         \* log: the faults caught while processing the last entry
    args,           \* a helper called on its own: its arguments
    ret             \* a helper called on its own: what it returned

vars == <<cfg, to_visit, visited, results, num_requests, pc, url, referrer,
          html, fetched, parsed, scanned, faults, args, ret>>

\* crawl calls no helper on its own
call == <<args, ret>>

\* crawl, before its first statement runs
Init ==
    /\ cfg \in CrawlConfig
    /\ to_visit = <<>>
    /\ visited = {}
    /\ results = <<>>
    /\ num_requests = 0
    /\ pc = "seed"
    /\ url = None
    /\ referrer = None
    /\ html = ""
    /\ fetched = <<>>
    /\ parsed = <<>>
    /\ scanned = <<>>
    /\ faults = {}
    /\ args = <<>>
    /\ ret = <<>>

\* the seeding loop: the start URLs that normalize, with no referrer
SeedEntry(norm) ==
    IF norm # None THEN <<[url |-> norm, referrer |-> None]>> ELSE <<>>

RECURSIVE SeedQueue(_)
SeedQueue(start_urls) ==
    IF start_urls = <<>> THEN <<>>
    ELSE Call1(SeedEntry, normalize_url(Head(start_urls)))
         \o Call1(SeedQueue, Tail(start_urls))

Seed ==
    /\ pc = "seed"
    /\ UNCHANGED call
    /\ to_visit' = SeedQueue(cfg.start_urls)
    /\ pc' = "loop"
    /\ UNCHANGED <<cfg, visited, results, num_requests, url, referrer, html,
                   fetched, parsed, scanned, faults>>

\* mutant of the while condition: the budget test off by one
ContinueInclusive(queue, n, max) == queue # <<>> /\ n <= max

\* mutant of the while condition: the budget not tested
ContinueNoBudget(queue, n, max) == queue # <<>>

\* the while condition
Continue(queue, n, max) == queue # <<>> /\ n < max

\* mutant of visited.add(url): the URL is not recorded
MarkVisitedSkipped(seen, u) == seen

\* visited.add(url)
MarkVisited(seen, u) == seen \cup {u}

\* the while condition is false: return results
Return ==
    /\ pc = "loop"
    /\ UNCHANGED call
    /\ ~Continue(to_visit, num_requests, cfg.max_requests_per_crawl)
    /\ pc' = "done"
    /\ UNCHANGED <<cfg, to_visit, visited, results, num_requests, url,
                   referrer, html, fetched, parsed, scanned, faults>>

\* popleft of an entry that is empty or already visited: continue
SkipVisited ==
    /\ pc = "loop"
    /\ UNCHANGED call
    /\ Continue(to_visit, num_requests, cfg.max_requests_per_crawl)
    /\ LET entry == Head(to_visit)
       IN  entry.url = None \/ entry.url \in visited
    /\ to_visit' = Tail(to_visit)
    /\ faults' = {}
    /\ UNCHANGED <<cfg, visited, results, num_requests, pc, url, referrer,
                   html, fetched, parsed, scanned>>

\* popleft of a new entry that an ignore glob matches: mark visited, continue
Ignore ==
    /\ pc = "loop"
    /\ UNCHANGED call
    /\ Continue(to_visit, num_requests, cfg.max_requests_per_crawl)
    /\ LET entry == Head(to_visit)
       IN  /\ entry.url # None /\ entry.url \notin visited
           /\ should_ignore(entry.url, cfg.ignore_url_globs)
           /\ visited' = MarkVisited(visited, entry.url)
    /\ to_visit' = Tail(to_visit)
    /\ faults' = {}
    /\ UNCHANGED <<cfg, results, num_requests, pc, url, referrer, html,
                   fetched, parsed, scanned>>

\* popleft of a new entry that no ignore glob matches: mark visited and go
\* on to fetch it
Dequeue ==
    /\ pc = "loop"
    /\ UNCHANGED call
    /\ Continue(to_visit, num_requests, cfg.max_requests_per_crawl)
    /\ LET entry == Head(to_visit)
       IN  /\ entry.url # None /\ entry.url \notin visited
           /\ ~should_ignore(entry.url, cfg.ignore_url_globs)
           /\ visited' = MarkVisited(visited, entry.url)
           /\ url' = entry.url
           /\ referrer' = entry.referrer
    /\ to_visit' = Tail(to_visit)
    /\ faults' = {}
    /\ pc' = "fetch"
    /\ UNCHANGED <<cfg, results, num_requests, html, fetched, parsed,
                   scanned>>

\* the counter after the try block around fetch_html: the increment follows
\* the call, so a call that raises skips it
CountRequest(n, raised) == IF raised THEN n ELSE n + 1

\* where crawl goes when fetch_html raises: the except clause logs and
\* continues
FetchRaised == "loop"

\* fetch_html raises: logged, continue
FetchFails ==
    /\ pc = "fetch"
    /\ UNCHANGED call
    /\ \E net \in Network :
         \E r \in {fetch_html(url, net)} :
             /\ r.raised
             /\ num_requests' = CountRequest(num_requests, r.raised)
    /\ fetched' = Append(fetched, url)
    /\ faults' = {"fetch"}
    /\ pc' = FetchRaised
    /\ url' = None
    /\ referrer' = None
    /\ UNCHANGED <<cfg, to_visit, visited, results, html, parsed, scanned>>

\* fetch_html returns a status >= 400 or an empty body: continue
FetchUnusable ==
    /\ pc = "fetch"
    /\ UNCHANGED call
    /\ \E net \in Network :
         \E r \in {fetch_html(url, net)} :
             /\ ~r.raised
             /\ r.status >= 400 \/ r.html = ""
             /\ num_requests' = CountRequest(num_requests, r.raised)
    /\ fetched' = Append(fetched, url)
    /\ pc' = "loop"
    /\ url' = None
    /\ referrer' = None
    /\ UNCHANGED <<cfg, to_visit, visited, results, html, parsed, scanned,
                   faults>>

\* mutant of the re-normalization: the final URL not used
OrElseRequested(norm, requested) == requested

\* normalize_url(final_url) or url
OrElse(norm, requested) == IF norm # None THEN norm ELSE requested

Canonical(final_url, requested) ==
    Call2(OrElse, Call1(normalize_url, final_url), requested)

\* fetch_html returns a usable response: re-normalize on the final URL
FetchUsable ==
    /\ pc = "fetch"
    /\ UNCHANGED call
    /\ \E net \in Network :
         \E r \in {fetch_html(url, net)} :
             /\ ~r.raised
             /\ ~(r.status >= 400 \/ r.html = "")
             /\ num_requests' = CountRequest(num_requests, r.raised)
             /\ html' = r.html
             /\ url' = Canonical(r.final_url, url)
    /\ fetched' = Append(fetched, url)
    /\ pc' = "page"
    /\ UNCHANGED <<cfg, to_visit, visited, results, referrer, parsed,
                   scanned, faults>>

\* mutant of the content-page condition: the permissive default dropped
IsContentPageStrict(page_type, scrape_globs) == page_type = "detail"

\* mutant of the link-discovery condition: every page's links followed
FollowsLinksAlways(page_type) == TRUE

\* mutant of the enqueue test: unknown links enqueued from any host
ShouldEnqueueAnyHost(norm, page, seen, c) ==
    /\ norm # None
    /\ norm \notin seen
    /\ ~match_any_glob(norm, c.ignore_url_globs)

\* mutant of the enqueue test: unknown links compared by host, the port
\* left out
ShouldEnqueueSameHost(norm, page, seen, c) ==
    /\ norm # None
    /\ norm \notin seen
    /\ ~should_ignore(norm, c.ignore_url_globs)
    /\ \/ classify_url(norm, c.scrape_url_globs, c.pagination_url_globs)
            \in {"detail", "pagination"}
       \/ Before(urlparse(norm).netloc, ":") = Before(urlparse(page).netloc, ":")

\* the condition under which the page is handed to parse_metadata
IsContentPage(page_type, scrape_globs) ==
    page_type = "detail" \/ (scrape_globs = <<>> /\ page_type # "pagination")

\* the condition under which the page's links are discovered
FollowsLinks(page_type) == page_type \in {"pagination", "unknown"}

\* whether the loop over the discovered links enqueues norm, found on page
ShouldEnqueue(norm, page, seen, c) ==
    /\ norm # None
    /\ norm \notin seen
    /\ ~should_ignore(norm, c.ignore_url_globs)
    /\ \/ classify_url(norm, c.scrape_url_globs, c.pagination_url_globs)
            \in {"detail", "pagination"}
       \/ urlparse(norm).netloc = urlparse(page).netloc

\* the entries the loop over the discovered links appends, in order
EntryFor(norm, page, seen, c) ==
    IF ShouldEnqueue(norm, page, seen, c)
    THEN <<[url |-> norm, referrer |-> page]>>
    ELSE <<>>

RECURSIVE EnqueueLinks(_, _, _, _)
EnqueueLinks(links, page, seen, c) ==
    IF links = <<>> THEN <<>>
    ELSE Call4(EntryFor, normalize_url(Head(links)), page, seen, c)
         \o Call4(EnqueueLinks, Tail(links), page, seen, c)

\* mutant of the handlers around parse_metadata and find_links: the
\* exception leaves crawl
PageRaisedUncaught == "raised"

\* where crawl goes when parse_metadata or find_links raises: each is
\* caught and logged where it is called
PageRaised == "loop"

\* the rest of the iteration for a usable response: classify, extract,
\* discover links.  parse_metadata and find_links may each raise.
Page ==
    /\ pc = "page"
    /\ UNCHANGED call
    /\ \E extract_raises, links_raise \in BOOLEAN :
       \E page_type \in {classify_url(url, cfg.scrape_url_globs,
                                      cfg.pagination_url_globs)} :
         LET content == IsContentPage(page_type, cfg.scrape_url_globs)
             follows == FollowsLinks(page_type)
         IN  /\ extract_raises => content
             /\ links_raise => follows
             /\ parsed' = IF content THEN Append(parsed, url) ELSE parsed
             /\ results' = IF content /\ ~extract_raises
                           THEN Append(results, parse_metadata(html, url))
                           ELSE results
             /\ scanned' = IF follows THEN Append(scanned, url) ELSE scanned
             /\ to_visit' = IF follows /\ ~links_raise
                            THEN to_visit
                                 \o Call4(EnqueueLinks, find_links(html, url),
                                          url, visited, cfg)
                            ELSE to_visit
             /\ faults' = (IF extract_raises THEN {"extract"} ELSE {})
                          \cup (IF links_raise THEN {"links"} ELSE {})
             /\ pc' = IF extract_raises \/ links_raise THEN PageRaised
                      ELSE "loop"
    /\ url' = None
    /\ referrer' = None
    /\ html' = ""
    /\ UNCHANGED <<cfg, visited, num_requests, fetched>>

Next ==
    \/ Seed
    \/ Return
    \/ SkipVisited
    \/ Ignore
    \/ Dequeue
    \/ FetchFails
    \/ FetchUnusable
    \/ FetchUsable
    \/ Page

Spec == Init /\ [][Next]_vars

\* the loop is a sequential program: it takes its next step while it has one
FairSpec == Spec /\ WF_vars(Next)
----------------------------------------------------------------------------
(* Properties of crawl *)

Range(seq) == {seq[k] : k \in 1..Len(seq)}

IsPrefix(a, b) == Len(a) <= Len(b) /\ SubSeq(b, 1, Len(a)) = a

\* the budget of the run
Budget == cfg.max_requests_per_crawl

\* an ignore glob of the run matches u
IgnoreMatched(u) == match_any_glob(u, cfg.ignore_url_globs)

\* the classification of u under the globs of the run
TypeOf(u) ==
    IF match_any_glob(u, cfg.scrape_url_globs) THEN "detail"
    ELSE IF match_any_glob(u, cfg.pagination_url_globs) THEN "pagination"
    ELSE "unknown"

\* the host of a URL: its netloc without the port
HostOf(u) == Before(urlparse(u).netloc, ":")

\* the entries a step appends to the frontier
Appended == SubSeq(to_visit', Len(to_visit) + 1, Len(to_visit'))

\* C1: no URL is handed to fetch_html twice in a run; a URL is in the
\* visited set from the moment it is dequeued, before its fetch has an
\* outcome, and every URL fetched is in the visited set.
C1_NoUrlFetchedTwice ==
    /\ \A i, j \in 1..Len(fetched) : fetched[i] = fetched[j] => i = j
    /\ \A i \in 1..Len(fetched) : fetched[i] \in visited
    /\ pc = "fetch" => url \in visited

\* every fetch so far failed, and a URL already fetched is queued again
C1_FailedUrlQueuedAgain ==
    /\ pc = "loop"
    /\ fetched # <<>>
    /\ num_requests = 0
    /\ \E k \in 1..Len(to_visit) : to_visit[k].url \in Range(fetched)

\* C2: the number of calls to fetch_html, whatever their outcome, never
\* exceeds max_requests_per_crawl.
C2_FetchAttemptsWithinBudget == Len(fetched) <= Budget

\* C3: every call to fetch_html raises the budget counter by exactly one,
\* whatever its outcome, and a call that ends the entry (a failure, or an
\* error status) produces no record.
C3_EveryAttemptCounted ==
    [][pc = "fetch" =>
         /\ num_requests' = num_requests + 1
         /\ pc' = "loop" => results' = results]_vars

\* C4: the budget counter never exceeds max_requests_per_crawl and never
\* decreases.
C4_CounterBoundedAndMonotone ==
    /\ [](num_requests <= Budget)
    /\ [][num_requests' >= num_requests]_vars

\* the counter has reached the maximum while entries are still queued
C4_BudgetReached ==
    pc = "loop" /\ num_requests = Budget /\ to_visit # <<>>

\* C5: a URL that an ignore glob matches is never handed to fetch_html,
\* whatever else it matches; dequeuing it marks it visited, leaves the
\* budget counter and the results alone, and fetches nothing.
C5_IgnoredNeverFetched ==
    /\ [](\A k \in 1..Len(fetched) : ~IgnoreMatched(fetched[k]))
    /\ [][(/\ pc = "loop"
           /\ to_visit # <<>>
           /\ num_requests < Budget
           /\ Head(to_visit).url # None
           /\ Head(to_visit).url \notin visited
           /\ IgnoreMatched(Head(to_visit).url))
          => /\ visited' = visited \cup {Head(to_visit).url}
             /\ num_requests' = num_requests
             /\ results' = results
             /\ fetched' = fetched
             /\ pc' = "loop"]_vars

\* a seed that both an ignore glob and a scrape glob match was dequeued
C5_IgnoredDetailSeedVisited ==
    /\ HX \o <<"/", "i", "/", "a", "/", "4">> \in visited
    /\ IgnoreMatched(HX \o <<"/", "i", "/", "a", "/", "4">>)
    /\ TypeOf(HX \o <<"/", "i", "/", "a", "/", "4">>) = "detail"

\* C6: crawl returns exactly when, at the top of the loop, the frontier is
\* empty or the counter has reached the maximum; an entry is dequeued only
\* after that test; and crawl always returns in the end.
C6_StopsExactlyWhenExhausted ==
    /\ [][pc = "loop" =>
            (pc' = "done" <=> (to_visit = <<>> \/ num_requests = Budget))]_vars
    /\ [][Len(to_visit') < Len(to_visit) =>
            (pc = "loop" /\ to_visit # <<>> /\ num_requests < Budget)]_vars
    /\ [](pc = "done" => (to_visit = <<>> \/ num_requests = Budget))
    /\ <>(pc = "done")

\* crawl returned on the budget, with entries left in the frontier
C6_ReturnedOnBudget ==
    pc = "done" /\ to_visit # <<>> /\ num_requests = Budget

\* C7: a fault of the fetch, of the extraction or of the link discovery is
\* caught within the entry being processed: crawl goes back to the top of
\* the loop with the results and the visited set it had, never leaves by
\* an exception, and with entries queued and budget left it dequeues the
\* next entry.
C7_FaultsIsolated ==
    /\ [](pc # "raised")
    /\ [][(pc \in {"fetch", "page"} /\ faults' # {}) =>
            /\ pc' = "loop"
            /\ IsPrefix(results, results')
            /\ visited \subseteq visited'
            /\ IsPrefix(to_visit, to_visit')]_vars
    /\ [][(pc = "loop" /\ to_visit # <<>> /\ num_requests < Budget) =>
            to_visit' = Tail(to_visit)]_vars
    /\ ((pc = "loop" /\ faults # {} /\ to_visit # <<>>
         /\ num_requests < Budget) ~> (faults = {}))

\* extraction and link discovery both faulted on a page, after an earlier
\* page gave a record, and there is more to crawl
C7_FaultWithWorkLeft ==
    /\ pc = "loop"
    /\ faults = {"extract", "links"}
    /\ results # <<>>
    /\ to_visit # <<>>
    /\ num_requests < Budget

\* C8: a usable page is handed to parse_metadata exactly when it is
\* classified detail, or no scrape globs are configured and it is not
\* classified pagination; its record is appended exactly when it was handed
\* over and the extraction did not fault; with no scrape and no pagination
\* globs every usable page is both handed to parse_metadata and scanned
\* for links.
C8_ContentPagePolicy ==
    [][pc = "page" =>
         /\ (parsed' = Append(parsed, url)) <=>
              (TypeOf(url) = "detail"
               \/ (cfg.scrape_url_globs = <<>> /\ TypeOf(url) # "pagination"))
         /\ parsed' # parsed => parsed' = Append(parsed, url)
         /\ (results' # results) <=>
              (parsed' # parsed /\ "extract" \notin faults')
         /\ results' # results =>
              /\ Len(results') = Len(results) + 1
              /\ IsPrefix(results, results')
              /\ results'[Len(results')].url = url
         /\ (cfg.scrape_url_globs = <<>> /\ cfg.pagination_url_globs = <<>>) =>
              /\ parsed' = Append(parsed, url)
              /\ scanned' = Append(scanned, url)]_vars

\* with no scrape and no pagination globs, a page gave a record and had
\* its links enqueued
C8_PermissiveDefaultUsed ==
    /\ cfg.scrape_url_globs = <<>>
    /\ cfg.pagination_url_globs = <<>>
    /\ results # <<>>
    /\ \E k \in 1..Len(to_visit) :
         to_visit[k].referrer = results[Len(results)].url

\* a link that only the document served at /a/1 holds
OnlyOnDetail == HX \o <<"/", "a", "/", "9">>

C10_EnqueuePolicy ==
    [][(pc = "page" /\ scanned' # scanned /\ "links" \notin faults') =>
         /\ IsPrefix(to_visit, to_visit')
         /\ \A k \in 1..Len(find_links(html, url)) :
              LET norm == normalize_url(find_links(html, url)[k])
              IN  (/\ norm # None
                   /\ ~IgnoreMatched(norm)
                   /\ norm \notin visited
                   /\ TypeOf(norm) \in {"detail", "pagination"})
                  => \E e \in Range(Appended) : e.url = norm
         /\ \A e \in Range(Appended) :
              /\ e.referrer = url
              /\ \E k \in 1..Len(find_links(html, url)) :
                   e.url = normalize_url(find_links(html, url)[k])
              /\ ~IgnoreMatched(e.url)
              /\ e.url \notin visited
              /\ TypeOf(e.url) = "unknown" => HostOf(e.url) = HostOf(url)]_vars

\* the home page was scanned: its unknown link on the same host and its
\* detail link on the other host are queued, and it held an unknown link
\* on the other host and an ignore-matched link
C10_HomeLinksEnqueued ==
    /\ IgnoreMatched(HX \o <<"/", "i", "/", "s">>)
    /\ TypeOf(HY \o <<"/", "a", "/", "3">>) = "detail"
    /\ \E k \in 1..Len(to_visit) :
         /\ to_visit[k].url = HX \o <<"/", "u">>
         /\ to_visit[k].referrer = HX \o <<"/">>
    /\ \E k \in 1..Len(to_visit) : to_visit[k].url = HY \o <<"/", "a", "/", "3">>
----------------------------------------------------------------------------
(* The helpers called on their own, on arguments drawn from bounded sets.  *)
(* No crawl runs: the variables of crawl stay as crawl finds them.         *)

crawl_vars == <<cfg, to_visit, visited, results, num_requests, url, referrer,
                html, fetched, parsed, scanned, faults>>

NoCrawl ==
    /\ cfg = [start_urls |-> <<>>,
              scrape_url_globs |-> <<>>,
              pagination_url_globs |-> <<>>,
              ignore_url_globs |-> <<>>,
              max_requests_per_crawl |-> 1]
    /\ to_visit = <<>>
    /\ visited = {}
    /\ results = <<>>
    /\ num_requests = 0
    /\ url = None
    /\ referrer = None
    /\ html = ""
    /\ fetched = <<>>
    /\ parsed = <<>>
    /\ scanned = <<>>
    /\ faults = {}

\* the URLs classify_url is called on
ClassifyUrls ==
    { HX \o <<"/">>,
      HX \o <<"/", "a", "/", "1">>,
      HX \o <<"/", "a", "/">>,
      HX \o <<"/", "a">>,
      HX \o <<"/", "p", "/", "1">>,
      HX \o <<"/", "p", "/", "a", "/", "1">>,
      HX \o <<"/", "p", "/", "1", "2">>,
      HX \o <<"/", "u">>,
      HY \o <<"/", "a", "/", "3">>,
      HY \o <<"/", "z">> }

\* the glob lists classify_url is called with
ClassifyGlobLists ==
    { <<>>,
      << <<"*", "*", "/", "a", "/", "*">> >>,
      << <<"*", "/", "p", "/", "*">> >>,
      << <<"*", "/", "p", "/", "?">> >>,
      << <<"*", "/", "z">>, <<"*", "*", "/", "a", "/", "*">> >>,
      << HX \o <<"/", "u">> >> }

ClassifyInit ==
    /\ NoCrawl
    /\ pc = "call"
    /\ args \in [url : ClassifyUrls,
                 scrape_globs : ClassifyGlobLists,
                 pagination_globs : ClassifyGlobLists]
    /\ ret = <<>>

\* classify_url(url, scrape_globs, pagination_globs)
Classify ==
    /\ pc = "call"
    /\ ret' = classify_url(args.url, args.scrape_globs, args.pagination_globs)
    /\ pc' = "return"
    /\ UNCHANGED <<crawl_vars, args>>

ClassifySpec == ClassifyInit /\ [][Classify]_vars

\* a pattern of the list, with "**" read as "*", matches the URL
MatchesOneOf(u, globs) ==
    \E k \in 1..Len(globs) : fnmatch(u, ReplaceStars(globs[k]))

\* C11: classify_url returns "detail" for a URL that a scrape pattern
\* matches, whatever the pagination patterns match; "pagination" for a URL
\* that a pagination pattern and no scrape pattern matches; "unknown" for a
\* URL that no pattern matches; and an empty list matches nothing.
C11_ClassifyPrecedence ==
    pc = "return" =>
        /\ MatchesOneOf(args.url, args.scrape_globs) => ret = "detail"
        /\ (/\ ~MatchesOneOf(args.url, args.scrape_globs)
            /\ MatchesOneOf(args.url, args.pagination_globs))
           => ret = "pagination"
        /\ (/\ ~MatchesOneOf(args.url, args.scrape_globs)
            /\ ~MatchesOneOf(args.url, args.pagination_globs))
           => ret = "unknown"
        /\ args.scrape_globs = <<>> => ret # "detail"
        /\ args.pagination_globs = <<>> => ret # "pagination"

\* a URL that a scrape pattern and a pagination pattern both match was
\* classified
C11_MatchedBothLists ==
    /\ pc = "return"
    /\ args.url = HX \o <<"/", "p", "/", "a", "/", "1">>
    /\ MatchesOneOf(args.url, args.scrape_globs)
    /\ MatchesOneOf(args.url, args.pagination_globs)
    /\ ret = "detail"

----------------------------------------------------------------------------
(* normalize_url on its own *)

\* the pieces the raw URLs are put together from, in order: leading
\* whitespace, scheme, authority, path, query, fragment, trailing whitespace
Leads == { <<>>, <<" ">> }
SchemeParts == { <<>>, Http \o <<":">>, Https \o <<":">>, Ftp \o <<":">>,
                 <<"x", ":">> }
AuthorityParts == { <<>>, <<"/", "/", "x">>, <<"/", "/", "x", ":", "8", "0">>,
                    <<"/", "/">> }
PathParts == { <<>>, <<"/">>, <<"/", "a">>, <<"/", "a", " ">>, <<"a">> }
QueryParts == { <<>>, <<"?">>, <<"?", "q">> }
FragmentParts == { <<>>, <<"#">>, <<"#", "f">>, <<" ", "#", "f">>,
                   <<"#", "f", " ">> }

\* the raw URLs normalize_url is called on
RawUrls ==
    { l \o s \o a \o p \o q \o f \o t :
        l \in Leads, s \in SchemeParts, a \in AuthorityParts, p \in PathParts,
        q \in QueryParts, f \in FragmentParts, t \in Leads }

NormalizeInit ==
    /\ NoCrawl
    /\ pc = "call"
    /\ args \in RawUrls
    /\ ret = None

\* n = normalize_url(u)
Normalize ==
    /\ pc = "call"
    /\ ret' = normalize_url(args)
    /\ pc' = "again"
    /\ UNCHANGED <<crawl_vars, args>>

\* normalize_url(n), for the n the first call returned
NormalizeAgain ==
    /\ pc = "again"
    /\ args' = ret
    /\ ret' = normalize_url(ret)
    /\ pc' = "return"
    /\ UNCHANGED crawl_vars

NormalizeSpec == NormalizeInit /\ [][Normalize \/ NormalizeAgain]_vars

\* C12: normalize_url is idempotent: called on what it returned, a URL or
\* None, it returns the same.
C12_NormalizeIdempotent == pc = "return" => ret = args

----------------------------------------------------------------------------
(* parse_metadata on its own *)

\* the content attribute of a meta tag: absent, blank, or text
BlankContent == <<" ">>
OgTitles == { <<>>, BlankContent, <<"A", " ", " ", "1">> }
TwitterTitles == { <<>>, <<"T">> }
Descriptions == { <<>>, BlankContent, <<" ", "D", " ">> }
OgDescriptions == { <<>>, <<"O">> }

\* the string of the title element: no title, a blank one, or text
TitleStrings == { NoText, Some(<<" ">>), Some(<<" ", "E", " ">>) }

\* an element and its visible text: absent, present with no text, or
\* present with text
Absent == [has |-> FALSE, text |-> NoText]
Empty == [has |-> TRUE, text |-> NoText]
H1s == { Absent, Empty, [has |-> TRUE, text |-> Some(<<"H", " ", " ", "I">>)] }
H2s == { Absent, [has |-> TRUE, text |-> Some(<<"P">>)] }
Containers == { Absent, Empty, [has |-> TRUE, text |-> Some(<<"B">>)] }

\* what the main-content extraction does: raises, finds no text, or finds
\* text
Readabilities ==
    { [raises |-> TRUE, text |-> NoText],
      [raises |-> FALSE, text |-> NoText],
      [raises |-> FALSE, text |-> Some(<<"C">>)] }

\* the texts of the p elements: none, three with an empty one, or twelve
\* with an empty one
ParagraphLists ==
    { <<>>,
      << <<>>, <<"Q">>, <<"R">> >>,
      << <<"1">>, <<>>, <<"2">>, <<"3">>, <<"4">>, <<"5">>, <<"6">>, <<"7">>,
         <<"8">>, <<"9">>, <<"1", "0">>, <<"1", "1">> >> }

\* the documents parse_metadata is called on
Soups ==
    { [BlankSoup EXCEPT
          !.meta_property = [@ EXCEPT !["og:title"] = og,
                                      !["og:description"] = od],
          !.meta_name = [@ EXCEPT !["twitter:title"] = tw,
                                  !["description"] = de],
          !.title_string = ti,
          !.has_h1 = h1.has, !.h1_text = h1.text,
          !.has_h2 = h2.has, !.h2_text = h2.text,
          !.readability = rd,
          !.has_container = ct.has, !.container_text = ct.text,
          !.paras = ps] :
        og \in OgTitles, od \in OgDescriptions, tw \in TwitterTitles,
        de \in Descriptions, ti \in TitleStrings, h1 \in H1s, h2 \in H2s,
        rd \in Readabilities, ct \in Containers, ps \in ParagraphLists }

ParseInit ==
    /\ NoCrawl
    /\ pc = "call"
    /\ args \in Soups
    /\ ret = <<>>

\* parse_metadata(html, url), for the html that parses to the document
ParseMetadata ==
    /\ pc = "call"
    /\ ret' = Call2(ParseSoup, args, HX \o <<"/", "a", "/", "1">>)
    /\ pc' = "return"
    /\ UNCHANGED <<crawl_vars, args>>

ParseSpec == ParseInit /\ [][ParseMetadata]_vars

\* a text that is neither absent nor empty nor blank
HasText(o) == o # NoText /\ \E k \in 1..Len(o[1]) : o[1][k] \notin Whitespace

\* the first of the texts that has text, else null
RECURSIVE FirstWithText(_)
FirstWithText(texts) ==
    IF texts = <<>> THEN NoText
    ELSE IF HasText(Head(texts)) THEN Head(texts)
    ELSE FirstWithText(Tail(texts))

\* whitespace normalization as the record's fields are to have it
Normalized(o) == IF HasText(o) THEN Some(strip(CollapseWs(o[1]))) ELSE NoText

\* the three stages of the article, each taken on its own
MainContentStage ==
    IF args.readability.raises THEN NoText ELSE args.readability.text
ContainerStage == IF args.has_container THEN args.container_text ELSE NoText
ParagraphStage ==
    LET texts == SelectSeq(args.paras, LAMBDA t : t # <<>>)
    IN  IF texts = <<>> THEN NoText
        ELSE Some(Join(SubSeq(texts, 1, IF Len(texts) < 10 THEN Len(texts)
                                        ELSE 10)))

\* the document with a main-content extraction that does not fault
Unfaulted == [args EXCEPT !.readability = [raises |-> FALSE, text |-> NoText]]

\* C14: the article is the first of the three stages that yields text:
\* the main-content extraction, then the article-else-main container, then
\* the first ten non-empty paragraphs joined; it is null only when none
\* yields text; and a fault of the main-content extraction leaves the later
\* stages, the title, the description and the heading as they are without
\* the fault.
C14_ArticleStagedFallback ==
    pc = "return" =>
        /\ ret.article =
             Normalized(FirstWithText(<<MainContentStage, ContainerStage,
                                        ParagraphStage>>))
        /\ ret.article = NoText =>
             /\ ~HasText(MainContentStage)
             /\ ~HasText(ContainerStage)
             /\ ~HasText(ParagraphStage)
        /\ args.readability.raises =>
             /\ ret.title = ParseSoup(Unfaulted, ret.url).title
             /\ ret.description = ParseSoup(Unfaulted, ret.url).description
             /\ ret.heading = ParseSoup(Unfaulted, ret.url).heading
             /\ ret.article = ParseSoup(Unfaulted, ret.url).article

\* the value of the metadata of the given name: the name= tag's content,
\* else the property= tag's
MetaValue(n) ==
    IF args.meta_name[n] # <<>> THEN Some(args.meta_name[n])
    ELSE IF args.meta_property[n] # <<>> THEN Some(args.meta_property[n])
    ELSE NoText

\* the sources of the title, in order
TitleSources ==
    <<MetaValue("og:title"), MetaValue("twitter:title"), MetaValue("dc.title"),
      args.title_string, IF args.has_h1 THEN args.h1_text ELSE NoText>>

\* C15: the title is the first that has text, in this order, of the
\* og:title, twitter:title and dc.title metadata values, the title
\* element's string and the first h1's text; a source that is present but
\* empty or blank is passed over for the next.
C15_TitleFirstNonEmpty ==
    (pc = "return" /\ HasText(FirstWithText(TitleSources))) =>
        ret.title = Normalized(FirstWithText(TitleSources))

\* a text field as a record is to hold it: null, or a string that is not
\* empty, has no whitespace at either end and no two whitespace characters
\* in a row
CleanText(o) ==
    \/ o = NoText
    \/ /\ o[1] # <<>>
       /\ o[1][1] \notin Whitespace
       /\ o[1][Len(o[1])] \notin Whitespace
       /\ \A k \in 1..(Len(o[1]) - 1) :
            ~(o[1][k] \in Whitespace /\ o[1][k + 1] \in Whitespace)

\* C16: every text field of the record is null or a clean non-empty
\* string; an empty or blank value becomes null, never the empty string.
C16_FieldsCleanOrNull ==
    pc = "return" =>
        /\ CleanText(ret.title)
        /\ CleanText(ret.description)
        /\ CleanText(ret.heading)
        /\ CleanText(ret.article)

----------------------------------------------------------------------------
(* Properties of crawl, continued *)

\* C13: the links discovered on one page that normalize to the same key
\* give one frontier entry for that key: the entries a page's step appends
\* have pairwise different URLs; and the key is fetched at most once.
C13_OneEntryPerKey ==
    /\ [][pc = "page" =>
            \A i, j \in 1..Len(Appended) :
                Appended[i].url = Appended[j].url => i = j]_vars
    /\ [](\A i, j \in 1..Len(fetched) : fetched[i] = fetched[j] => i = j)

\* the URL the last call of fetch_html was made on
Requested == fetched[Len(fetched)]

\* the final URL the transport reports for the requested URL, normalized;
\* the requested URL when that gives nothing
KeyOf(requested) ==
    IF normalize_url(Served(requested).final_url) # None
    THEN normalize_url(Served(requested).final_url)
    ELSE requested

\* the links of the page being processed, resolved against base and
\* normalized as crawl normalizes them
LinksFrom(base) ==
    {normalize_url(find_links(html, base)[k]) :
        k \in 1..Len(find_links(html, base))}

\* C17: after a usable response everything is done on the normalized final
\* URL (the requested URL only when the final URL does not normalize): the
\* page is classified by it, the record carries it, the links are resolved
\* against it, enqueued links have it as referrer, and an unknown link is
\* enqueued on having its netloc.
C17_FinalUrlIsTheKey ==
    [][pc = "page" =>
         /\ url = KeyOf(Requested)
         /\ (parsed' # parsed) <=>
              (TypeOf(KeyOf(Requested)) = "detail"
               \/ (cfg.scrape_url_globs = <<>>
                   /\ TypeOf(KeyOf(Requested)) # "pagination"))
         /\ (scanned' # scanned) <=>
              TypeOf(KeyOf(Requested)) \in {"pagination", "unknown"}
         /\ results' # results =>
              results'[Len(results')].url = KeyOf(Requested)
         /\ scanned' # scanned =>
              scanned'[Len(scanned')] = KeyOf(Requested)
         /\ \A e \in Range(Appended) :
              /\ e.referrer = KeyOf(Requested)
              /\ e.url \in LinksFrom(KeyOf(Requested))
              /\ TypeOf(e.url) = "unknown" =>
                   urlparse(e.url).netloc = urlparse(KeyOf(Requested)).netloc
         /\ (scanned' # scanned /\ "links" \notin faults') =>
              \A n \in LinksFrom(KeyOf(Requested)) :
                  (/\ n # None
                   /\ n \notin visited
                   /\ ~IgnoreMatched(n)
                   /\ urlparse(n).netloc = urlparse(KeyOf(Requested)).netloc)
                  => \E e \in Range(Appended) : e.url = n]_vars

\* http://x/h was requested and answered from http://y/z: the record and
\* the referrer carry http://y/z, and the relative link k was resolved
\* against it
C17_RedirectedAcrossHosts ==
    /\ pc = "loop"
    /\ HX \o <<"/", "h">> \in Range(fetched)
    /\ HY \o <<"/", "z">> \notin Range(fetched)
    /\ \E k \in 1..Len(results) : results[k].url = HY \o <<"/", "z">>
    /\ \E k \in 1..Len(to_visit) :
         /\ to_visit[k].url = HY \o <<"/", "k">>
         /\ to_visit[k].referrer = HY \o <<"/", "z">>

\* C18 as stated: a discovered link classified unknown, not ignore-matched
\* and not visited is enqueued whenever its host is the host of the page,
\* whatever their schemes and ports.
C18_SameHostEnqueued ==
    [][(pc = "page" /\ scanned' # scanned /\ "links" \notin faults') =>
         \A n \in LinksFrom(url) :
             (/\ n # None
              /\ TypeOf(n) = "unknown"
              /\ ~IgnoreMatched(n)
              /\ n \notin visited
              /\ HostOf(n) = HostOf(url))
             => \E e \in Range(Appended) : e.url = n]_vars

\* C18 amended: a discovered link classified unknown, not ignore-matched and
\* not visited is enqueued exactly when its netloc, the host together with
\* the port as written, is the netloc of the page; the scheme is not
\* compared.
C18_SameNetlocEnqueued ==
    [][(pc = "page" /\ scanned' # scanned /\ "links" \notin faults') =>
         \A n \in LinksFrom(url) :
             (/\ n # None
              /\ TypeOf(n) = "unknown"
              /\ ~IgnoreMatched(n)
              /\ n \notin visited)
             => ((\E e \in Range(Appended) : e.url = n)
                 <=> urlparse(n).netloc = urlparse(url).netloc)]_vars

\* the page http://x/u was scanned: its link to https://x/v is queued, its
\* link to http://x:80/w is not
C18_OtherSchemeQueuedOtherPortNot ==
    /\ pc = "loop"
    /\ HX \o <<"/", "u">> \in Range(scanned)
    /\ faults = {}
    /\ TypeOf(HX \o <<":", "8", "0", "/", "w">>) = "unknown"
    /\ ~IgnoreMatched(HX \o <<":", "8", "0", "/", "w">>)
    /\ HX \o <<":", "8", "0", "/", "w">> \notin visited
    /\ \E k \in 1..Len(to_visit) :
         /\ to_visit[k].url = Https \o <<":", "/", "/", "x", "/", "v">>
         /\ to_visit[k].referrer = HX \o <<"/", "u">>
    /\ \A k \in 1..Len(to_visit) :
         to_visit[k].url # HX \o <<":", "8", "0", "/", "w">>

\* C19: no two records of the results carry the same url, and a step only
\* appends to the results.
C19_OneRecordPerUrl ==
    /\ [](\A i, j \in 1..Len(results) :
            results[i].url = results[j].url => i = j)
    /\ [][IsPrefix(results, results')]_vars

\* C20: no record carries a url that an ignore glob matches, and no page
\* whose canonical URL an ignore glob matches is scanned for links.
C20_IgnoredNeverProcessed ==
    /\ \A k \in 1..Len(results) : ~IgnoreMatched(results[k].url)
    /\ \A k \in 1..Len(scanned) : ~IgnoreMatched(scanned[k])
====
